---- MODULE Spec2Model ----
(***************************************************************************)
(* SunnahTracker: the Hijri monthly calendar component                     *)
(* (src/src/components/HijriMonthlyCalendar.tsx) and the habit lookup it   *)
(* is given by the tracker (src/wuchale.config.js).                        *)
(*                                                                         *)
(* Dates are calendar days, numbered 1..lastDate; the time of day of       *)
(* a Date object is not modelled.  The Intl formatter behind getHijriParts *)
(* is the table `calendar` (the Hijri months in order) and `defect`,       *)
(* which says how the formatter deviates from the table.  A day number     *)
(* outside the table stands for a Date outside the representable range     *)
(* (an Invalid Date), on which formatToParts throws a RangeError.          *)
(***************************************************************************)
EXTENDS Integers, Sequences, FiniteSets, TLC

(* ------------------------------ bounds -------------------------------- *)
\* The first Hijri year a session can start in.
BaseYear == 1446
\* The calendar table covers the Hijri years BaseYear-1 .. BaseYear+NumYears.
NumYears == 3
\* nextYear is followed at most this far above BaseYear.
MaxYearsAhead == 1
\* The wall clock passes at most this many midnights.
MaxClockDays == 1
\* A habit-name list applied on its own has at most this many names.
MaxListLen == 3
\* The tracker starts at most this many locale loads.
MaxLoads == 3

(* ------------------------- the Hijri oracle --------------------------- *)
\* Three calendars with months of 29 or 30 days: two with years of 354 or
\* 355 days, as Umm al-Qura has, and one with years of 348 and 360 days.
Calendars == 1..3

MonthLen(c, y, m) ==
  CASE c = 1 -> IF m % 2 = 1 THEN 30
                ELSE IF m = 12 /\ y % 3 = 2 THEN 30 ELSE 29
    [] c = 2 -> IF m = 12 /\ y % 3 = 0 THEN 30
                ELSE <<30, 30, 29, 30, 29, 29, 30, 29, 30, 29, 30, 29>>[m]
    [] OTHER -> IF y % 2 = 0 THEN 29 ELSE 30

RECURSIVE SumMonths(_, _, _)
SumMonths(c, y, m) ==
  IF m = 0 THEN 0 ELSE MonthLen(c, y, m) + SumMonths(c, y, m - 1)

RECURSIVE SumYears(_, _, _)
SumYears(c, y, n) ==
  IF n = 0 THEN 0 ELSE SumMonths(c, y, 12) + SumYears(c, y + 1, n - 1)

\* The first day of Hijri year y in calendar c; day 1 is 1 Muharram of
\* BaseYear-1.
FirstDayOf(c, y) == 1 + SumYears(c, BaseYear - 1, y - (BaseYear - 1))

\* The months of calendar c in order, each with its first day and length.
CalendarTable(c) ==
  [i \in 1..(12 * (NumYears + 2)) |->
     LET y == BaseYear - 1 + ((i - 1) \div 12)
         m == ((i - 1) % 12) + 1
     IN [year |-> y, month |-> m,
         first |-> FirstDayOf(c, y) + SumMonths(c, y, m - 1),
         length |-> MonthLen(c, y, m)]]

VARIABLES
  calendar,         \* the oracle's table: the Hijri months in order
  lastDate,         \* the last day of the representable Date range
  defect,           \* how the formatter deviates from the table
  clock,            \* the wall clock's calendar day (new Date())
  elapsed,          \* midnights passed since the component mounted
  now,              \* useState `now` (line 69)
  selectedYear,     \* useState (line 95)
  selectedMonth,    \* useState (line 96)
  hijriYearData,    \* useMemo (lines 99-120)
  monthlyHijriData, \* useMemo (lines 125-196)
  storage,          \* localStorage: day of the key -> stored item
  utcShift,         \* UTC date minus local date of the Date objects
  requiredHabits,   \* prop
  optionalHabits,   \* prop
  phase,            \* "unmounted", "mounted", "crashed" (a render threw), or
                    \* "removed" (unmounted again)
  last,             \* the last event and the cursor before it
  call,             \* a function applied on its own: arguments and result
  view,             \* the tracker: "closed" or "open"
  habits,           \* the tracker's useState `habits` (wuchale.config.js 213)
  completedOn,      \* history: day -> the habits set true on that day
  locale,           \* the tracker's useState `locale` (wuchale.config.js 217)
  i18nReady,        \* the tracker's useState `i18nReady` (line 218)
  localeLoads,      \* the loadLocale calls made: locale, the effect's
                    \* `active` flag, and how the promise stands
  localeEffectDue,  \* a render with a new locale is committed and the
                    \* effect of lines 301-323 has not yet run for it
  timers            \* the interval timers registered by the effect of
                    \* lines 77-90: the `now` each callback closes over

vars == <<calendar, lastDate, defect, clock, elapsed, now, selectedYear, selectedMonth,
          hijriYearData, monthlyHijriData, storage, utcShift, requiredHabits,
          optionalHabits, phase, last, call, view, habits, completedOn,
          locale, i18nReady, localeLoads, localeEffectDue, timers>>

\* The state of the tracker around the calendar.
TrackerState ==
  <<view, habits, completedOn, locale, i18nReady, localeLoads,
    localeEffectDue>>

\* An empty slot of Array.from({ length: 12 }) (undefined).
NoDate == 0
\* The RangeError formatToParts throws on an Invalid Date.
RangeError == NoDate - 1

\* A Date inside the representable range.
ValidDate(d) == 1 <= d /\ d <= lastDate

\* The table's month that holds `date`, looked for from index i on.
RECURSIVE MonthOf(_, _)
MonthOf(date, i) ==
  IF date < calendar[i].first + calendar[i].length THEN calendar[i]
  ELSE MonthOf(date, i + 1)

\* The Hijri date of a day of the table (no month is longer than 30 days).
HijriDate(date) ==
  LET m == MonthOf(date, ((date - 1) \div 30) + 1)
  IN [day |-> date - m.first + 1, month |-> m.month, year |-> m.year]

\* The first day of Hijri year y, read from the table.
YearFirst(y) == calendar[12 * (y - BaseYear + 1) + 1].first

\* The characters of a part's value: the decimal digits, and "x" for any
\* other character.
Digits == <<"0", "1", "2", "3", "4", "5", "6", "7", "8", "9">>

\* The decimal numeral the formatter writes for n (numberingSystem latn).
RECURSIVE Numeral(_)
Numeral(n) ==
  IF n < 10 THEN <<Digits[n + 1]>>
  ELSE Append(Numeral(n \div 10), Digits[(n % 10) + 1])

\* The numerals of the numbers a date of the table is written with,
\* tabulated.
Numerals ==
  (0 :> Numeral(0)) @@ [n \in 1..(BaseYear + NumYears) |-> Numeral(n)]

\* What Number(value) gives for a string that is no numeral (NaN).  No
\* year, month or day is negative, so the value stands apart from them.
NotANumber == 0 - 1

\* The number a decimal digit stands for.
DigitValue ==
  ("0" :> 0) @@ ("1" :> 1) @@ ("2" :> 2) @@ ("3" :> 3) @@ ("4" :> 4)
  @@ ("5" :> 5) @@ ("6" :> 6) @@ ("7" :> 7) @@ ("8" :> 8) @@ ("9" :> 9)

DigitChars == DOMAIN DigitValue

\* The number the first n characters of a string of digits write.
RECURSIVE DecimalValue(_, _)
DecimalValue(value, n) ==
  IF n = 0 THEN 0
  ELSE 10 * DecimalValue(value, n - 1) + DigitValue[value[n]]

\* Number(value) of a string: the empty string is 0, a string of digits is
\* the number it writes, any other string is NaN.
ToNumber(value) ==
  IF \A i \in 1..Len(value) : value[i] \in DigitChars
  THEN DecimalValue(value, Len(value))
  ELSE NotANumber

\* hijriNumberFormatter.formatToParts(date): the value of each part found,
\* by type.  A "stuck" formatter answers every date from defect.at on as
\* defect.at; a "noDay", "noMonth" or "noYear" one leaves that part out at
\* defect.at; a "malformed" one writes defect.value for defect.part there.
formatToParts(date) ==
  LET p == IF defect.kind = "stuck" /\ date >= defect.at
           THEN HijriDate(defect.at)
           ELSE HijriDate(date)
      missing == IF date = defect.at
                 THEN CASE defect.kind = "noDay" -> {"day"}
                        [] defect.kind = "noMonth" -> {"month"}
                        [] defect.kind = "noYear" -> {"year"}
                        [] OTHER -> {}
                 ELSE {}
  IN [t \in {"day", "month", "year"} \ missing |->
        IF defect.kind = "malformed" /\ date = defect.at /\ t = defect.part
        THEN defect.value
        ELSE Numerals[p[t]]]

getHijriParts(date) ==
  LET parts == formatToParts(date)
  IN [day |-> IF "day" \in DOMAIN parts THEN ToNumber(parts["day"]) ELSE 1,
      month |-> IF "month" \in DOMAIN parts
                THEN ToNumber(parts["month"]) ELSE 1,
      year |-> IF "year" \in DOMAIN parts THEN ToNumber(parts["year"]) ELSE 1]

(* ----------------------- the boundary resolver ------------------------ *)
\* The year length the first guess assumes (line 35).
ApproxYearDays == 354

\* No loop over dates takes more iterations than the Date range has days.
\* Every loop below runs its body until its condition fails; the iterations
\* are split in halves so that evaluation nests only logarithmically deep.
LoopBudget == lastDate + 1

\* F applied to the value of e, with e evaluated once.
Then(e, F(_)) == CHOOSE r \in {F(x) : x \in {e}} : TRUE

\* guess.setDate(guess.getDate() + days); RangeError stands for the Invalid
\* Date the next getHijriParts throws on.
AddDays(date, days) ==
  IF ValidDate(date + days) THEN date + days ELSE RangeError

\* The loop of lines 45-48: `guess` after at most n more iterations.
RECURSIVE StepToYear(_, _, _, _)
StepToYear(targetYear, guess, direction, n) ==
  IF guess = RangeError \/ n = 0 THEN guess
  ELSE IF getHijriParts(guess).year = targetYear THEN guess
  ELSE IF n = 1 THEN AddDays(guess, direction)
  ELSE Then(StepToYear(targetYear, guess, direction, n \div 2),
            LAMBDA g : StepToYear(targetYear, g, direction, n - (n \div 2)))

getDateInHijriYear(targetYear, anchor) ==
  LET anchorYear == getHijriParts(anchor).year
      shiftDays == (targetYear - anchorYear) * ApproxYearDays
      guess == anchor + shiftDays
  IN IF ~ValidDate(guess) THEN RangeError
     ELSE LET currentYear == getHijriParts(guess).year
          IN IF currentYear = targetYear THEN guess
             ELSE StepToYear(targetYear, guess,
                             IF currentYear < targetYear THEN 1 ELSE -1,
                             LoopBudget)

\* The loop of lines 56-58: `start` after at most n more iterations.
RECURSIVE StepBackOutOfYear(_, _, _)
StepBackOutOfYear(targetYear, start, n) ==
  IF start = RangeError \/ n = 0 THEN start
  ELSE IF getHijriParts(start).year # targetYear THEN start
  ELSE IF n = 1 THEN AddDays(start, -1)
  ELSE Then(StepBackOutOfYear(targetYear, start, n \div 2),
            LAMBDA d : StepBackOutOfYear(targetYear, d, n - (n \div 2)))

\* A faulty variant of getHijriYearStart: the loop of lines 56-58 left
\* out, so the date found in the year is returned.
getHijriYearStartNoWalkBack(targetYear, anchor) ==
  getDateInHijriYear(targetYear, anchor)

\* A faulty variant of getHijriYearStart: line 59 left out, so the last
\* day of the year before is returned.
getHijriYearStartUnstepped(targetYear, anchor) ==
  Then(getDateInHijriYear(targetYear, anchor), LAMBDA dateInYear :
    StepBackOutOfYear(targetYear, dateInYear, LoopBudget))

getHijriYearStart(targetYear, anchor) ==
  Then(getDateInHijriYear(targetYear, anchor), LAMBDA dateInYear :
    Then(StepBackOutOfYear(targetYear, dateInYear, LoopBudget),
         LAMBDA start : IF start = RangeError THEN RangeError ELSE start + 1))

(* --------------------------- the habit store -------------------------- *)
\* The keys of defaultHabits (wuchale.config.js lines 70-98), cut to three.
HabitKeys == {"fajr", "quran", "witrPrayer"}
\* The names a habit list may hold: the keys and one name no record has.
HabitNames == HabitKeys \cup {"other"}

defaultHabits == [k \in HabitKeys |-> FALSE]

\* A lookup that found nothing (null).
NoRecord == [found |-> FALSE, habits |-> [k \in {} |-> FALSE]]

\* localStorage.getItem(key): the item, or null.
getItem(st, key) == IF key \in DOMAIN st THEN st[key] ELSE [kind |-> "null"]

\* JSON.stringify of a habits record.
Stringify(record) == [kind |-> "json", value |-> record]

parseHabitsRecord(stored) ==
  IF stored.kind = "null" THEN NoRecord
  ELSE IF stored.kind = "json"
       THEN [found |-> TRUE,
             habits |-> [k \in HabitKeys \cup DOMAIN stored.value |->
                           IF k \in DOMAIN stored.value THEN stored.value[k]
                           ELSE defaultHabits[k]]]
  ELSE NoRecord

\* The day in the key "habits:YYYY-MM-DD" built from the local date parts.
getLocalDateKey(date) == date
\* The day in the key built from toISOString, the UTC date.
getLegacyDateKey(date) == date + utcShift

\* A faulty variant of getHabitsForDate: the legacy key is read first and
\* its record is written over the local key.
getHabitsForDateLegacyFirst(st, date) ==
  LET localKey == getLocalDateKey(date)
      localHabits == parseHabitsRecord(getItem(st, localKey))
      legacyHabits == parseHabitsRecord(getItem(st, getLegacyDateKey(date)))
  IN IF legacyHabits.found
     THEN [record |-> legacyHabits,
           storage |-> (localKey :> Stringify(legacyHabits.habits)) @@ st]
     ELSE [record |-> localHabits, storage |-> st]

\* getHabitsForDate(date) on storage st: the record returned and the
\* storage it leaves.
getHabitsForDate(st, date) ==
  LET localKey == getLocalDateKey(date)
      localHabits == parseHabitsRecord(getItem(st, localKey))
      legacyHabits == parseHabitsRecord(getItem(st, getLegacyDateKey(date)))
  IN IF localHabits.found THEN [record |-> localHabits, storage |-> st]
     ELSE [record |-> legacyHabits,
           storage |-> IF legacyHabits.found
                       THEN (localKey :> Stringify(legacyHabits.habits)) @@ st
                       ELSE st]

(* ------------------------ the progress values ------------------------- *)
Null == [tag |-> "null"]
NaN == [tag |-> "NaN"]
Number(n) == [tag |-> "number", value |-> n]

\* A faulty variant of RoundedPercent: Math.floor for Math.round.
TruncatedPercent(completed, length) ==
  IF length = 0 THEN NaN ELSE Number((100 * completed) \div length)

\* Math.round((completed / length) * 100): 0 / 0 is NaN, and Math.round
\* rounds a half up.
RoundedPercent(completed, length) ==
  IF length = 0 THEN NaN
  ELSE Number((200 * completed + length) \div (2 * length))

\* habitsForDay[habit] read as a condition.
Truthy(habitsForDay, habit) ==
  habit \in DOMAIN habitsForDay /\ habitsForDay[habit]

CountCompleted(habitList, habitsForDay) ==
  Len(SelectSeq(habitList, LAMBDA habit : Truthy(habitsForDay, habit)))

requiredProgressValue(habitsForDay, habitList) ==
  IF habitsForDay.found
  THEN RoundedPercent(CountCompleted(habitList, habitsForDay.habits),
                      Len(habitList))
  ELSE Null

optionalProgressValue(habitsForDay, habitList) ==
  IF habitsForDay.found /\ Len(habitList) > 0
  THEN RoundedPercent(CountCompleted(habitList, habitsForDay.habits),
                      Len(habitList))
  ELSE Null

(* ----------------------------- the render ----------------------------- *)
MonthIndexes == 0..11

\* monthStarts[i], undefined outside the array.
SlotAt(monthStarts, i) ==
  IF i \in DOMAIN monthStarts THEN monthStarts[i] ELSE NoDate

\* A faulty variant of ScanBody: the slot index is the month number, not
\* the month number less one.
ScanBodyShifted(s) ==
  LET parts == getHijriParts(s.cursor)
  IN [cursor |-> AddDays(s.cursor, 1),
      monthStarts |->
        IF parts.day = 1 /\ SlotAt(s.monthStarts, parts.month) = NoDate
           /\ parts.month \in DOMAIN s.monthStarts
        THEN [s.monthStarts EXCEPT ![parts.month] = s.cursor]
        ELSE s.monthStarts]

\* A faulty variant of ScanBody: the slot is given the cursor itself, not a
\* copy of it (line 107 without new Date), so every filled slot moves on
\* with the cursor.
ScanBodyAliased(s) ==
  LET parts == getHijriParts(s.cursor)
      moved == AddDays(s.cursor, 1)
  IN [cursor |-> moved,
      monthStarts |->
        [i \in DOMAIN s.monthStarts |->
           IF s.monthStarts[i] # NoDate \/ (parts.day = 1 /\ i = parts.month - 1)
           THEN moved ELSE NoDate]]

\* The body of the loop of lines 104-110 on s = [cursor, monthStarts].
ScanBody(s) ==
  LET parts == getHijriParts(s.cursor)
  IN [cursor |-> AddDays(s.cursor, 1),
      monthStarts |->
        IF parts.day = 1 /\ SlotAt(s.monthStarts, parts.month - 1) = NoDate
        THEN [s.monthStarts EXCEPT ![parts.month - 1] = s.cursor]
        ELSE s.monthStarts]

\* A faulty variant of ScanMonthStarts: the loop is also left once the
\* last slot is filled.
RECURSIVE ScanMonthStartsToLastSlot(_, _, _)
ScanMonthStartsToLastSlot(year, s, n) ==
  IF s.cursor = RangeError \/ n = 0 THEN s
  ELSE IF getHijriParts(s.cursor).year # year \/ s.monthStarts[11] # NoDate
       THEN s
  ELSE IF n = 1 THEN ScanBody(s)
  ELSE Then(ScanMonthStartsToLastSlot(year, s, n \div 2),
            LAMBDA t : ScanMonthStartsToLastSlot(year, t, n - (n \div 2)))

\* The loop of lines 104-110: its state after at most n more iterations.
RECURSIVE ScanMonthStarts(_, _, _)
ScanMonthStarts(year, s, n) ==
  IF s.cursor = RangeError \/ n = 0 THEN s
  ELSE IF getHijriParts(s.cursor).year # year THEN s
  ELSE IF n = 1 THEN ScanBody(s)
  ELSE Then(ScanMonthStarts(year, s, n \div 2),
            LAMBDA t : ScanMonthStarts(year, t, n - (n \div 2)))

\* Intl.DateTimeFormat(hijriLocale, { month: 'short' }).format(date).
MonthShortNames ==
  <<"Muh.", "Saf.", "Rab. I", "Rab. II", "Jum. I", "Jum. II",
    "Raj.", "Sha.", "Ram.", "Shaw.", "Dhu'l-Q.", "Dhu'l-H.">>

\* A faulty variant of MonthLabel: an empty slot is formatted as well, and
\* format(undefined) formats the present day.
MonthLabelOfNow(date) ==
  MonthShortNames[HijriDate(IF date = NoDate THEN clock ELSE date).month]

MonthLabel(date) ==
  IF date = NoDate THEN "" ELSE MonthShortNames[HijriDate(date).month]

\* The body of the hijriYearData memo.
ComputeYearData(year, today) ==
  Then(getHijriYearStart(year, today), LAMBDA yearStart :
    Then(ScanMonthStarts(year,
           [cursor |-> yearStart,
            monthStarts |-> [i \in MonthIndexes |-> NoDate]], LoopBudget),
         LAMBDA scan :
           [thrown |-> (scan.cursor = RangeError),
            cursor |-> scan.cursor,
            yearStart |-> yearStart,
            monthStarts |-> scan.monthStarts,
            monthLabels |->
              [i \in MonthIndexes |-> MonthLabel(scan.monthStarts[i])]]))

\* Line 122-123.
selectedMonthStart(yearData, month) ==
  IF SlotAt(yearData.monthStarts, month) # NoDate
  THEN yearData.monthStarts[month]
  ELSE yearData.yearStart

\* A faulty variant of RangeEnd: the day is not taken off (lines 130, 135),
\* so the range ends on the first day of what follows.
RangeEndInclusive(yearData, year, month, rangeStart) ==
  LET nextMonthStart == SlotAt(yearData.monthStarts, month + 1)
  IN IF nextMonthStart # NoDate THEN nextMonthStart
     ELSE getHijriYearStart(year + 1, rangeStart)

\* A faulty variant of RangeEnd: the day is taken off twice, so the range
\* ends a day early.
RangeEndDayEarly(yearData, year, month, rangeStart) ==
  LET nextMonthStart == SlotAt(yearData.monthStarts, month + 1)
  IN IF nextMonthStart # NoDate THEN nextMonthStart - 2
     ELSE getHijriYearStart(year + 1, rangeStart) - 2

\* Lines 128-137; RangeError when the next year's start search threw.
RangeEnd(yearData, year, month, rangeStart) ==
  LET nextMonthStart == SlotAt(yearData.monthStarts, month + 1)
  IN IF nextMonthStart # NoDate THEN nextMonthStart - 1
     ELSE LET nextYearStart == getHijriYearStart(year + 1, rangeStart)
          IN IF nextYearStart = RangeError THEN RangeError
             ELSE nextYearStart - 1

\* The body of the loop of lines 147-182 on s = [current, days, storage],
\* the storage being what the lookups so far have left.
DayBody(s, reqList, optList) ==
  Then(getHabitsForDate(s.storage, s.current), LAMBDA looked :
    LET parts == getHijriParts(s.current)
        entry == [date |-> s.current,
                  hijriDay |-> parts.day,
                  hijriMonth |-> parts.month,
                  requiredProgress |->
                    requiredProgressValue(looked.record, reqList),
                  optionalProgress |->
                    optionalProgressValue(looked.record, optList)]
    IN [current |-> s.current + 1,
        days |-> Append(s.days, entry),
        storage |-> looked.storage])

\* The loop of lines 147-182: its state after at most n more iterations.
RECURSIVE BuildDays(_, _, _, _, _)
BuildDays(s, rangeEnd, reqList, optList, n) ==
  IF s.current > rangeEnd \/ n = 0 THEN s
  ELSE IF n = 1 THEN DayBody(s, reqList, optList)
  ELSE Then(BuildDays(s, rangeEnd, reqList, optList, n \div 2),
            LAMBDA t : BuildDays(t, rangeEnd, reqList, optList,
                                 n - (n \div 2)))

\* rangeStart.getDay().
GetDay(date) == date % 7

\* The body of the monthlyHijriData memo; it is not reached when the
\* hijriYearData memo threw.
ComputeMonthData(yearData, year, month, st, reqList, optList) ==
  LET rangeStart == selectedMonthStart(yearData, month)
      failed == [thrown |-> TRUE, startWeekday |-> 0, days |-> <<>>,
                 storage |-> st]
  IN IF yearData.thrown THEN failed
     ELSE Then(RangeEnd(yearData, year, month, rangeStart), LAMBDA rangeEnd :
       IF rangeEnd = RangeError THEN failed
       ELSE Then(BuildDays([current |-> rangeStart, days |-> <<>>,
                            storage |-> st],
                           rangeEnd, reqList, optList, LoopBudget),
                 LAMBDA built :
                   [thrown |-> FALSE,
                    startWeekday |-> GetDay(rangeStart),
                    days |-> built.days,
                    storage |-> built.storage]))

(* --------------------------- the Date objects ------------------------- *)
\* The functions above once more, on Date objects: heap[d] is the day the
\* object d holds, and every function returns the heap it leaves.  What a
\* loop leaves in the object it steps is the day computed above; what is
\* followed here is which object every setDate is called on.

\* No object: an empty slot of monthStarts.
NoRef == 0

\* A faulty variant of NewDate: the object itself is taken, not a copy.
NewDateShared(heap, d) == [heap |-> heap, ref |-> d]

\* new Date(d) (lines 36, 55, 102, 107, 126, 129, 131, 135, 148, 176): a
\* new object holding the day of d.
NewDate(heap, d) == [heap |-> Append(heap, heap[d]), ref |-> Len(heap) + 1]

\* d.setDate(...), leaving d on `day`.
SetDate(heap, d, day) == [heap EXCEPT ![d] = day]

\* Lines 33-51: guess is made from anchor (line 36), and guess is the
\* object of every setDate (lines 37, 46).  On an anchor that is an
\* Invalid Date getHijriParts throws (line 34).
getDateInHijriYearOn(heap, targetYear, anchor) ==
  Then(NewDate(heap, anchor), LAMBDA guess :
    [heap |-> SetDate(guess.heap, guess.ref,
                      IF heap[anchor] = RangeError THEN RangeError
                      ELSE getDateInHijriYear(targetYear, heap[anchor])),
     ref |-> guess.ref])

\* Lines 53-61: start is made from dateInYear (line 55), and start is the
\* object of every setDate (lines 57, 59).
getHijriYearStartOn(heap, targetYear, anchor) ==
  Then(getDateInHijriYearOn(heap, targetYear, anchor), LAMBDA dateInYear :
    Then(NewDate(dateInYear.heap, dateInYear.ref), LAMBDA start :
      Then(StepBackOutOfYear(targetYear, start.heap[start.ref], LoopBudget),
           LAMBDA day :
             [heap |-> SetDate(start.heap, start.ref,
                               IF day = RangeError THEN RangeError
                               ELSE day + 1),
              ref |-> start.ref])))

\* Lines 104-110 on s = [heap, cursor, slots]: the slots from index i on
\* that the scan fills with the days `starts`, in the order of the months;
\* each is made from the cursor (line 107) when the cursor is on its day.
RECURSIVE FillSlots(_, _, _)
FillSlots(s, starts, i) ==
  IF i \notin DOMAIN starts THEN s
  ELSE IF starts[i] = NoDate THEN FillSlots(s, starts, i + 1)
  ELSE Then(NewDate(SetDate(s.heap, s.cursor, starts[i]), s.cursor),
            LAMBDA copy :
              FillSlots([heap |-> copy.heap, cursor |-> s.cursor,
                         slots |-> [s.slots EXCEPT ![i] = copy.ref]],
                        starts, i + 1))

\* The hijriYearData memo (lines 99-120): the cursor is made from
\* yearStart (line 102) and is the object of the setDate of line 109.
ComputeYearDataOn(heap, year, today) ==
  Then(getHijriYearStartOn(heap, year, today), LAMBDA yearStart :
    Then(NewDate(yearStart.heap, yearStart.ref), LAMBDA cursor :
      Then(ScanMonthStarts(year,
             [cursor |-> cursor.heap[cursor.ref],
              monthStarts |-> [i \in MonthIndexes |-> NoDate]], LoopBudget),
           LAMBDA scan :
             Then(FillSlots([heap |-> cursor.heap, cursor |-> cursor.ref,
                             slots |-> [i \in MonthIndexes |-> NoRef]],
                            scan.monthStarts, 0),
                  LAMBDA filled :
                    [heap |-> SetDate(filled.heap, cursor.ref, scan.cursor),
                     yearStart |-> yearStart.ref,
                     monthStarts |-> filled.slots]))))

\* Lines 128-137: rangeEnd is made from rangeStart (line 129) and then
\* from nextMonthStart (line 131) or nextYearStart (line 135), and is the
\* object of the setDate of line 132 or 136.
RangeEndOn(heap, yearData, year, month, rangeStart) ==
  Then(NewDate(heap, rangeStart), LAMBDA first :
    LET nextMonthStart == SlotAt(yearData.monthStarts, month + 1)
    IN IF nextMonthStart # NoRef
       THEN Then(NewDate(first.heap, nextMonthStart), LAMBDA rangeEnd :
              [heap |-> SetDate(rangeEnd.heap, rangeEnd.ref,
                                AddDays(rangeEnd.heap[rangeEnd.ref], -1)),
               ref |-> rangeEnd.ref])
       ELSE Then(getHijriYearStartOn(first.heap, year + 1, rangeStart),
                 LAMBDA nextYearStart :
                   Then(NewDate(nextYearStart.heap, nextYearStart.ref),
                        LAMBDA rangeEnd :
                          [heap |-> SetDate(rangeEnd.heap, rangeEnd.ref,
                                            AddDays(rangeEnd.heap[rangeEnd.ref],
                                                    -1)),
                           ref |-> rangeEnd.ref])))

\* The body of the loop of lines 147-182 on s = [heap, days]: the day's
\* date is made from current (line 176), and current is the object of the
\* setDate of line 150.
DayBodyOn(s, current) ==
  Then(NewDate(s.heap, current), LAMBDA date :
    [heap |-> SetDate(date.heap, current, AddDays(date.heap[current], 1)),
     days |-> Append(s.days, date.ref)])

\* The loop of lines 147-182: its state after at most n more iterations.
\* An Invalid Date compares false with every date.
RECURSIVE BuildDaysOn(_, _, _, _)
BuildDaysOn(s, current, rangeEnd, n) ==
  IF \/ n = 0
     \/ s.heap[current] = RangeError \/ s.heap[rangeEnd] = RangeError
     \/ s.heap[current] > s.heap[rangeEnd]
  THEN s
  ELSE IF n = 1 THEN DayBodyOn(s, current)
  ELSE Then(BuildDaysOn(s, current, rangeEnd, n \div 2),
            LAMBDA t : BuildDaysOn(t, current, rangeEnd, n - (n \div 2)))

\* The monthlyHijriData memo (lines 125-196): rangeStart is made from
\* selectedMonthStart (line 126) and current from rangeStart (line 148).
ComputeMonthDataOn(heap, yearData, year, month) ==
  LET selected == IF SlotAt(yearData.monthStarts, month) # NoRef
                  THEN yearData.monthStarts[month]
                  ELSE yearData.yearStart
  IN Then(NewDate(heap, selected), LAMBDA rangeStart :
       Then(RangeEndOn(rangeStart.heap, yearData, year, month,
                       rangeStart.ref),
            LAMBDA rangeEnd :
              Then(NewDate(rangeEnd.heap, rangeStart.ref), LAMBDA current :
                BuildDaysOn([heap |-> current.heap, days |-> <<>>],
                            current.ref, rangeEnd.ref, LoopBudget))))

(* ---------------------------- the day cells --------------------------- *)
\* A faulty variant of isWhiteDay: the month is not looked at.
isWhiteDayAnyMonth(day) == day.hijriDay \in {13, 14, 15}

\* Lines 297-299 (part_000 lines 319-321).
isWhiteDay(day) ==
  day.hijriMonth # 9
    /\ (day.hijriDay = 13 \/ day.hijriDay = 14 \/ day.hijriDay = 15)

\* The tracker's fasting prompt (wuchale.config.js lines 246-255).
isWhiteDayToday(hijriTodayParts) ==
  IF hijriTodayParts.month = 9 THEN FALSE
  ELSE hijriTodayParts.day = 13 \/ hijriTodayParts.day = 14
         \/ hijriTodayParts.day = 15

\* specialDayLabel returning null.
NoLabel == "null"

\* A faulty variant of specialDayLabel: the ninth and the tenth of month 12
\* are taken for each other.
specialDayLabelSwapped(hijriMonth, hijriDay) ==
  IF hijriMonth = 12 /\ hijriDay = 10 THEN "Day of Arafah"
  ELSE IF hijriMonth = 12 /\ hijriDay = 9 THEN "Eid al-Adha"
  ELSE IF hijriMonth = 10 /\ hijriDay = 1 THEN "Eid al-Fitr"
  ELSE IF hijriMonth = 1 /\ hijriDay = 10 THEN "Day of Ashura"
  ELSE NoLabel

\* part_000 lines 216-231.
specialDayLabel(hijriMonth, hijriDay) ==
  IF hijriMonth = 12 /\ hijriDay = 9 THEN "Day of Arafah"
  ELSE IF hijriMonth = 12 /\ hijriDay = 10 THEN "Eid al-Adha"
  ELSE IF hijriMonth = 10 /\ hijriDay = 1 THEN "Eid al-Fitr"
  ELSE IF hijriMonth = 1 /\ hijriDay = 10 THEN "Day of Ashura"
  ELSE NoLabel

\* part_000 lines 323-325.
isDhulHijjahFirstTen(day) ==
  day.hijriMonth = 12 /\ day.hijriDay >= 1 /\ day.hijriDay <= 10
isRamadanLastTen(day) == day.hijriMonth = 9 /\ day.hijriDay >= 21

\* value ?? fallback: the fallback for null, the value otherwise.
Coalesce(value, fallback) == IF value = Null THEN fallback ELSE value

\* The widths of the two progress bars of a day's cell, in percent
\* (lines 294-295, 333, 339).
requiredWidth(day) == Coalesce(day.requiredProgress, Number(0))
optionalWidth(day) == Coalesce(day.optionalProgress, Number(0))

\* The tags of a day's cell (part_000 lines 315-327).
RenderDay(day) ==
  [isWhiteDay |-> isWhiteDay(day),
   specialLabel |-> specialDayLabel(day.hijriMonth, day.hijriDay),
   isDhulHijjahFirstTen |-> isDhulHijjahFirstTen(day),
   isRamadanLastTen |-> isRamadanLastTen(day)]

(* --------------------------- the component ---------------------------- *)
\* Line 93-94.
todayParts == getHijriParts(now)
minYear == todayParts.year

Max(a, b) == IF a >= b THEN a ELSE b

\* A faulty variant of prevYearUpdater: the Math.max left out.
prevYearUnfloored(floor, year) == year - 1

\* The updater of the previous-year button (line 232).
prevYearUpdater(floor, year) == Max(floor, year - 1)

\* A faulty variant of nextYearUpdater: year++ for year + 1, which returns
\* the year as it was.
nextYearUnmoved(year) == year

\* The updater of the next-year button (line 249).
nextYearUpdater(year) == year + 1

NoCall == [fn |-> "none"]

\* What a render leaves: the two memos and the storage the lookups wrote;
\* a render that throws unmounts the component.
\* A faulty variant of DayCheckEffect: the effect returns no cleanup, so a
\* run registers its timer beside the earlier ones.
DayCheckEffectUncleared(registered, before, after) ==
  IF after = before THEN registered ELSE registered \cup {after}

\* The effect of lines 77-90 after a commit that took `now` from `before`
\* to `after`: with `now` unchanged it does not run; otherwise the cleanup
\* of its previous run clears that run's timer (line 89) and setInterval
\* registers a callback that closes over the new `now` (lines 78-87).
DayCheckEffect(registered, before, after) ==
  IF after = before THEN registered
  ELSE (registered \ {before}) \cup {after}

\* The commit of a render, followed by its effects.  A render that throws
\* takes the component down and its effect's cleanup runs.
Commit(yd, md) ==
  IF md.thrown
  THEN /\ phase' = "crashed"
       /\ timers' = timers \ {now}
       /\ UNCHANGED <<hijriYearData, monthlyHijriData, storage>>
  ELSE /\ phase' = "mounted"
       /\ timers' = DayCheckEffect(timers, now, now')
       /\ hijriYearData' = [yearStart |-> yd.yearStart,
                            monthStarts |-> yd.monthStarts,
                            monthLabels |-> yd.monthLabels]
       /\ monthlyHijriData' = [startWeekday |-> md.startWeekday,
                               days |-> md.days]
       /\ storage' = md.storage

\* The memos a state change to (nowN, yearN, monthN) makes run again:
\* hijriYearData when selectedYear or today changed (line 120), and
\* monthlyHijriData when its monthStarts, the year or the month changed
\* (lines 188-196).  A setState to the same values renders nothing.
MemosRun(nowN, yearN, monthN) ==
  IF yearN # selectedYear \/ nowN # now
  THEN {"hijriYearData", "monthlyHijriData"}
  ELSE IF monthN # selectedMonth THEN {"monthlyHijriData"} ELSE {}

\* The render that follows a state change to (nowN, yearN, monthN).
Rerender(nowN, yearN, monthN) ==
  LET memos == MemosRun(nowN, yearN, monthN)
  IN /\ now' = nowN
     /\ selectedYear' = yearN
     /\ selectedMonth' = monthN
     /\ IF memos = {}
        THEN UNCHANGED <<hijriYearData, monthlyHijriData, storage, phase,
                         timers>>
        ELSE \E yd \in {IF "hijriYearData" \in memos
                        THEN ComputeYearData(yearN, nowN)
                        ELSE [thrown |-> FALSE,
                              yearStart |-> hijriYearData.yearStart,
                              monthStarts |-> hijriYearData.monthStarts,
                              monthLabels |-> hijriYearData.monthLabels]} :
               \E md \in {ComputeMonthData(yd, yearN, monthN, storage,
                                           requiredHabits, optionalHabits)} :
                 Commit(yd, md)

\* The event `op` and the cursor and floor it found.
Before(op) == [op |-> op, year |-> selectedYear, floor |-> minYear]

Environment ==
  <<calendar, lastDate, defect, utcShift, requiredHabits, optionalHabits, call,
    TrackerState>>

\* The previous-year button's onClick (lines 231-233).  The updater runs on
\* the selectedYear of the moment: a click queued before the button was
\* rendered disabled (line 240) runs it at the floor.
PrevYear ==
  /\ phase = "mounted"
  /\ Rerender(now, prevYearUpdater(minYear, selectedYear), selectedMonth)
  /\ last' = Before("prevYear")
  /\ UNCHANGED <<Environment, clock, elapsed>>

\* The next-year button's onClick (line 249).
NextYear ==
  /\ phase = "mounted"
  /\ selectedYear < BaseYear + MaxYearsAhead
  /\ Rerender(now, nextYearUpdater(selectedYear), selectedMonth)
  /\ last' = Before("nextYear")
  /\ UNCHANGED <<Environment, clock, elapsed>>

\* The month buttons pressed: Muharram, Ramadan and Dhu al-Hijjah.
MonthChoices == {0, 8, 11}

\* A month button's onClick (lines 261-264).
SelectMonth ==
  /\ phase = "mounted"
  /\ \E index \in MonthChoices :
       /\ Rerender(now, selectedYear, index)
       /\ last' = [op |-> "selectMonth", year |-> selectedYear,
                   floor |-> minYear, index |-> index]
  /\ UNCHANGED <<Environment, clock, elapsed>>

\* A faulty variant of DayCheck: the refresh also raises selectedYear to
\* the Hijri year of the new day.
DayCheckClamped ==
  /\ phase = "mounted"
  /\ Rerender(IF clock # now THEN clock ELSE now,
              Max(selectedYear, getHijriParts(clock).year), selectedMonth)
  /\ last' = [op |-> "dayCheck", year |-> selectedYear, floor |-> minYear,
              memos |-> {"hijriYearData", "monthlyHijriData"}]
  /\ UNCHANGED <<Environment, clock, elapsed>>

\* A faulty variant of DayCheck: setNow(current) without the comparison of
\* lines 80-84; the new Date object makes both memos run again.
DayCheckUnguarded ==
  /\ phase = "mounted"
  /\ now' = clock
  /\ UNCHANGED <<selectedYear, selectedMonth>>
  /\ \E yd \in {ComputeYearData(selectedYear, clock)} :
       \E md \in {ComputeMonthData(yd, selectedYear, selectedMonth, storage,
                                   requiredHabits, optionalHabits)} :
         Commit(yd, md)
  /\ last' = [op |-> "dayCheck", year |-> selectedYear, floor |-> minYear,
              memos |-> {"hijriYearData", "monthlyHijriData"}]
  /\ UNCHANGED <<Environment, clock, elapsed>>

\* The interval callback (lines 78-87): setNow when the day has changed.
\* The event keeps the memos the check made run again.
DayCheck ==
  /\ phase = "mounted"
  /\ \E reference \in timers, current \in {clock} :
       \E nowN \in {IF current # reference THEN current ELSE now} :
         /\ Rerender(nowN, selectedYear, selectedMonth)
         /\ last' = [op |-> "dayCheck", year |-> selectedYear,
                     floor |-> minYear,
                     memos |-> MemosRun(nowN, selectedYear, selectedMonth)]
  /\ UNCHANGED <<Environment, clock, elapsed>>

\* Midnight passes on the wall clock.
Midnight ==
  /\ phase = "mounted"
  /\ elapsed < MaxClockDays
  /\ clock' = clock + 1
  /\ elapsed' = elapsed + 1
  /\ last' = Before("midnight")
  /\ UNCHANGED <<Environment, now, selectedYear, selectedMonth, hijriYearData,
                 monthlyHijriData, storage, phase, timers>>

\* The calendar view is opened: the useState initialisers (lines 69, 95,
\* 96) and the first render.
Mount ==
  /\ phase = "unmounted"
  /\ LET parts == getHijriParts(clock)
     IN /\ now' = clock
        /\ selectedYear' = parts.year
        /\ selectedMonth' = parts.month - 1
        /\ last' = [op |-> "mount", year |-> parts.year, floor |-> parts.year]
        /\ \E yd \in {ComputeYearData(parts.year, clock)} :
             \E md \in {ComputeMonthData(yd, parts.year, parts.month - 1,
                                         storage, requiredHabits,
                                         optionalHabits)} :
               Commit(yd, md)
  /\ UNCHANGED <<Environment, clock, elapsed>>

\* The calendar view is left (wuchale.config.js line 583): the component
\* is unmounted and the cleanup of its effect runs (line 89).
Unmount ==
  /\ phase = "mounted"
  /\ phase' = "removed"
  /\ timers' = timers \ {now}
  /\ last' = Before("unmount")
  /\ UNCHANGED <<Environment, clock, elapsed, now, selectedYear, selectedMonth,
                 hijriYearData, monthlyHijriData, storage>>

Next ==
  \/ Mount \/ PrevYear \/ NextYear \/ SelectMonth \/ DayCheck \/ Midnight
  \/ Unmount

(* ----------------------------- the tracker ---------------------------- *)
\* getTodayKey() (wuchale.config.js line 170): the key of the wall clock's
\* day.
getTodayKey == getLocalDateKey(clock)

\* The habits a stored item marks true.
CompletedInItem(stored) ==
  LET parsed == parseHabitsRecord(stored)
  IN {k \in DOMAIN parsed.habits : parsed.habits[k]}

\* type Locale (line 134), and the value of `locale` before the tracker is
\* there.
Locales == {"en", "ar"}
NoLocale == "none"

\* The effect of lines 301-323 run for locale l: the cleanup of its
\* previous run clears that run's `active`, and loadLocale(l) is called
\* under a new `active`.
StartLoad(loads, l) ==
  Append([i \in DOMAIN loads |-> [loads[i] EXCEPT !.active = FALSE]],
         [locale |-> l, active |-> TRUE, promise |-> "pending"])

\* The tracker is opened: useState(defaultHabits) (line 213),
\* useState(getInitialLocale) (line 217), useState(false) (line 218), the
\* load effect of lines 283-293, which runs once, and the first run of the
\* locale effect of lines 301-323.
OpenTracker ==
  /\ view = "closed" /\ phase = "unmounted" /\ call = NoCall
  /\ \E looked \in {getHabitsForDate(storage, clock)} :
       /\ habits' = IF looked.record.found THEN looked.record.habits
                    ELSE defaultHabits
       /\ storage' = looked.storage
  /\ view' = "open"
  /\ \E initial \in Locales :
       /\ locale' = initial
       /\ localeLoads' = StartLoad(localeLoads, initial)
  /\ i18nReady' = FALSE
  /\ localeEffectDue' = FALSE
  /\ UNCHANGED <<calendar, lastDate, defect, clock, elapsed, now, selectedYear,
                 selectedMonth, hijriYearData, monthlyHijriData, utcShift,
                 requiredHabits, optionalHabits, phase, timers, last,
                 call, completedOn>>

\* A language button's onClick (lines 501 and 513): setLocale.  The buttons
\* are rendered only when i18nReady (line 436); a click on the current
\* locale's button leaves the state as it is.  The render with the new
\* locale is committed before any effect runs.
SetLocale ==
  /\ view = "open" /\ i18nReady /\ ~localeEffectDue
  /\ Len(localeLoads) < MaxLoads
  /\ \E chosen \in Locales \ {locale} : locale' = chosen
  /\ localeEffectDue' = TRUE
  /\ UNCHANGED <<calendar, lastDate, defect, clock, elapsed, now, selectedYear,
                 selectedMonth, hijriYearData, monthlyHijriData, storage,
                 utcShift, requiredHabits, optionalHabits, phase, timers, last,
                 call, view, habits, completedOn, i18nReady, localeLoads>>

\* The locale effect runs after the commit (lines 301-323): the previous
\* run's cleanup, setI18nReady(false), loadLocale(locale).
RunLocaleEffect ==
  /\ view = "open" /\ localeEffectDue
  /\ i18nReady' = FALSE
  /\ localeLoads' = StartLoad(localeLoads, locale)
  /\ localeEffectDue' = FALSE
  /\ UNCHANGED <<calendar, lastDate, defect, clock, elapsed, now, selectedYear,
                 selectedMonth, hijriYearData, monthlyHijriData, storage,
                 utcShift, requiredHabits, optionalHabits, phase, timers, last,
                 call, view, habits, completedOn, locale>>

\* A loadLocale promise settles (lines 308-318): the then and the catch
\* callback both call setI18nReady(true) when their run's `active` holds.
SettleLoad ==
  /\ view = "open"
  /\ \E i \in DOMAIN localeLoads, outcome \in {"resolved", "rejected"} :
       /\ localeLoads[i].promise = "pending"
       /\ localeLoads' = [localeLoads EXCEPT ![i].promise = outcome]
       /\ i18nReady' = IF localeLoads[i].active THEN TRUE ELSE i18nReady
  /\ UNCHANGED <<calendar, lastDate, defect, clock, elapsed, now, selectedYear,
                 selectedMonth, hijriYearData, monthlyHijriData, storage,
                 utcShift, requiredHabits, optionalHabits, phase, timers, last,
                 call, view, habits, completedOn, locale, localeEffectDue>>

\* toggleHabit (lines 333-337): newHabits.
toggleHabit(current, habit) == [current EXCEPT ![habit] = ~current[habit]]

\* A habit is toggled: setHabits and saveHabits (lines 325-337).  The habit
\* buttons are rendered only when i18nReady (line 436).
ToggleHabit ==
  /\ view = "open" /\ i18nReady /\ ~localeEffectDue
  /\ \E habit \in HabitKeys :
       \E newHabits \in {toggleHabit(habits, habit)} :
         /\ habits' = newHabits
         /\ storage' = (getTodayKey :> Stringify(newHabits)) @@ storage
         /\ completedOn' =
              IF newHabits[habit]
              THEN [completedOn EXCEPT ![clock] = @ \cup {habit}]
              ELSE completedOn
  /\ UNCHANGED <<calendar, lastDate, defect, clock, elapsed, now, selectedYear,
                 selectedMonth, hijriYearData, monthlyHijriData, utcShift,
                 requiredHabits, optionalHabits, phase, timers, last, call,
                 view, locale, i18nReady, localeLoads, localeEffectDue>>

\* Midnight passes while the tracker is open.
Rollover ==
  /\ view = "open"
  /\ elapsed < MaxClockDays
  /\ clock' = clock + 1
  /\ elapsed' = elapsed + 1
  /\ UNCHANGED <<calendar, lastDate, defect, now, selectedYear, selectedMonth,
                 hijriYearData, monthlyHijriData, storage, utcShift,
                 requiredHabits, optionalHabits, phase, timers, last,
                 call, TrackerState>>

NextTracker ==
  \/ OpenTracker \/ ToggleHabit \/ Rollover
  \/ SetLocale \/ RunLocaleEffect \/ SettleLoad

(* ----------------------- the functions on their own ------------------- *)
\* The Hijri years asked for, and the anchor dates they are asked from:
\* the first day, a middle day and the last day of every year of the table
\* but the last.
TargetYears == BaseYear..(BaseYear + NumYears - 1)
AnchorDates ==
  UNION {{YearFirst(y), YearFirst(y) + 177, YearFirst(y + 1) - 1} :
           y \in (BaseYear - 1)..(BaseYear + NumYears - 1)}

\* getHijriYearStart(targetYear, anchor), with the date its first loop
\* handed to the second.
ApplyYearStart ==
  /\ phase = "unmounted" /\ call = NoCall
  /\ \E targetYear \in TargetYears, anchor \in AnchorDates :
       call' = [fn |-> "getHijriYearStart",
                targetYear |-> targetYear,
                anchor |-> anchor,
                dateInYear |-> getDateInHijriYear(targetYear, anchor),
                result |-> getHijriYearStart(targetYear, anchor)]
  /\ UNCHANGED <<calendar, lastDate, defect, clock, elapsed, now, selectedYear,
                 selectedMonth, hijriYearData, monthlyHijriData, storage,
                 utcShift, requiredHabits, optionalHabits, phase, timers,
                 last, TrackerState>>

\* The records a lookup can return: null, or a stored object merged over
\* defaultHabits.
StoredValues == UNION {[S -> BOOLEAN] : S \in SUBSET HabitKeys}
Records ==
  {NoRecord} \cup {parseHabitsRecord(Stringify(v)) : v \in StoredValues}
HabitLists == UNION {[1..n -> HabitNames] : n \in 0..MaxListLen}

\* The two progress values of a grid day (lines 157-172), for a looked-up
\* record and a habit-name list, with the bar widths of the day's cell and
\* those of the cell of a day without a record.
ApplyProgress ==
  /\ phase = "unmounted" /\ call = NoCall
  /\ \E habitsForDay \in Records, habitList \in HabitLists :
       call' = [fn |-> "progress",
                habitsForDay |-> habitsForDay,
                habitList |-> habitList,
                requiredProgress |->
                  requiredProgressValue(habitsForDay, habitList),
                optionalProgress |->
                  optionalProgressValue(habitsForDay, habitList),
                widths |->
                  LET day == [requiredProgress |->
                                requiredProgressValue(habitsForDay, habitList),
                              optionalProgress |->
                                optionalProgressValue(habitsForDay, habitList)]
                  IN <<requiredWidth(day), optionalWidth(day)>>,
                widthsNoRecord |->
                  LET day == [requiredProgress |->
                                requiredProgressValue(NoRecord, habitList),
                              optionalProgress |->
                                optionalProgressValue(NoRecord, habitList)]
                  IN <<requiredWidth(day), optionalWidth(day)>>]
  /\ UNCHANGED <<calendar, lastDate, defect, clock, elapsed, now, selectedYear,
                 selectedMonth, hijriYearData, monthlyHijriData, storage,
                 utcShift, requiredHabits, optionalHabits, phase, timers,
                 last, TrackerState>>

\* The two memos (lines 99-196) computed for a year, a month index and a
\* reference day.
ApplyMonthGrid ==
  /\ phase = "unmounted" /\ call = NoCall
  /\ \E year \in TargetYears, today \in {clock, clock + 177} :
       \E yd \in {ComputeYearData(year, today)} :
         \E month \in MonthIndexes :
           \E md \in {ComputeMonthData(yd, year, month, storage,
                                       requiredHabits, optionalHabits)} :
             /\ call' = [fn |-> "monthlyHijriData",
                         year |-> year, month |-> month, today |-> today,
                         yearThrown |-> yd.thrown,
                         thrown |-> md.thrown,
                         yearStart |-> yd.yearStart,
                         monthStarts |-> yd.monthStarts,
                         monthLabels |-> yd.monthLabels,
                         cursor |-> yd.cursor,
                         days |-> md.days,
                         cells |-> [k \in 1..Len(md.days) |->
                                      RenderDay(md.days[k])]]
             /\ storage' = md.storage
  /\ UNCHANGED <<calendar, lastDate, defect, clock, elapsed, now, selectedYear,
                 selectedMonth, hijriYearData, monthlyHijriData,
                 utcShift, requiredHabits, optionalHabits, phase, timers,
                 last, TrackerState>>

\* The tags of the cell of a day the oracle reports as (hijriMonth,
\* hijriDay), and the fasting prompt on such a day.
ApplyDayTags ==
  /\ phase = "unmounted" /\ call = NoCall
  /\ \E hijriMonth \in 1..12, hijriDay \in 1..30 :
       call' = [fn |-> "dayTags",
                hijriMonth |-> hijriMonth,
                hijriDay |-> hijriDay,
                cell |-> RenderDay([hijriMonth |-> hijriMonth,
                                    hijriDay |-> hijriDay]),
                isWhiteDayToday |->
                  isWhiteDayToday([month |-> hijriMonth, day |-> hijriDay])]
  /\ UNCHANGED <<calendar, lastDate, defect, clock, elapsed, now, selectedYear,
                 selectedMonth, hijriYearData, monthlyHijriData, storage,
                 utcShift, requiredHabits, optionalHabits, phase, timers,
                 last, TrackerState>>

\* The two memos computed on Date objects for a year and a month index,
\* and the hijriYearData memo computed again after a move to another
\* year; `today` is the only object there is before.
ApplyOnObjects ==
  /\ phase = "unmounted" /\ call = NoCall
  /\ \E year \in TargetYears, month \in MonthChoices,
        day \in {clock, clock + 177} :
       \E other \in TargetYears \ {year} :
         \E yd \in {ComputeYearDataOn(<<day>>, year, 1)} :
           \E md \in {ComputeMonthDataOn(yd.heap, yd, year, month)} :
             \E od \in {ComputeYearDataOn(md.heap, other, 1)} :
               call' = [fn |-> "objects",
                        year |-> year, month |-> month, other |-> other,
                        today |-> 1,
                        before |-> <<day>>,
                        yearData |-> [yearStart |-> yd.yearStart,
                                      monthStarts |-> yd.monthStarts],
                        afterYear |-> yd.heap,
                        days |-> md.days,
                        afterGrid |-> md.heap,
                        otherData |-> [yearStart |-> od.yearStart,
                                       monthStarts |-> od.monthStarts],
                        afterOther |-> od.heap]
  /\ UNCHANGED <<calendar, lastDate, defect, clock, elapsed, now, selectedYear,
                 selectedMonth, hijriYearData, monthlyHijriData, storage,
                 utcShift, requiredHabits, optionalHabits, phase, timers,
                 last, TrackerState>>

\* The anchor every other anchor's year start is compared with: the last
\* of AnchorDates.
FarAnchors == {YearFirst(BaseYear + NumYears) - 1}

\* getHijriYearStart(targetYear, anchor) for two anchors.
ApplyYearStartTwice ==
  /\ phase = "unmounted" /\ call = NoCall
  /\ \E targetYear \in TargetYears, anchor \in AnchorDates,
        other \in FarAnchors :
       call' = [fn |-> "twoAnchors",
                targetYear |-> targetYear,
                anchor |-> anchor,
                other |-> other,
                result |-> getHijriYearStart(targetYear, anchor),
                otherResult |-> getHijriYearStart(targetYear, other)]
  /\ UNCHANGED <<calendar, lastDate, defect, clock, elapsed, now, selectedYear,
                 selectedMonth, hijriYearData, monthlyHijriData, storage,
                 utcShift, requiredHabits, optionalHabits, phase, timers,
                 last, TrackerState>>

\* The grid of a month and the grid of the month after it - the first
\* month of the next year after the twelfth - each built from the year
\* map of its year.
ApplyTwoGrids ==
  /\ phase = "unmounted" /\ call = NoCall
  /\ \E year \in TargetYears, month \in MonthIndexes :
       \E nextYear \in {IF month = 11 THEN year + 1 ELSE year},
          nextMonth \in {IF month = 11 THEN 0 ELSE month + 1} :
         /\ nextYear \in TargetYears
         /\ \E yd \in {ComputeYearData(year, clock)} :
              \E md \in {ComputeMonthData(yd, year, month, storage,
                                          requiredHabits, optionalHabits)} :
                \E nyd \in {IF nextYear = year THEN yd
                            ELSE ComputeYearData(nextYear, clock)} :
                  \E nmd \in {ComputeMonthData(nyd, nextYear, nextMonth,
                                               md.storage, requiredHabits,
                                               optionalHabits)} :
                    /\ call' = [fn |-> "twoGrids",
                                year |-> year, month |-> month,
                                nextYear |-> nextYear,
                                nextMonth |-> nextMonth,
                                thrown |-> md.thrown \/ nmd.thrown,
                                days |-> [k \in 1..Len(md.days) |->
                                            md.days[k].date],
                                nextDays |-> [k \in 1..Len(nmd.days) |->
                                                nmd.days[k].date]]
                    /\ storage' = nmd.storage
  /\ UNCHANGED <<calendar, lastDate, defect, clock, elapsed, now, selectedYear,
                 selectedMonth, hijriYearData, monthlyHijriData,
                 utcShift, requiredHabits, optionalHabits, phase, timers,
                 last, TrackerState>>

\* The items a key of the store may hold before a lookup: nothing, an item
\* that is no JSON, an empty object, and two partial records.
StoredChoices ==
  {[kind |-> "null"], [kind |-> "garbage"],
   Stringify([k \in {} |-> TRUE]),
   Stringify([k \in {"fajr"} |-> TRUE]),
   Stringify([k \in {"quran", "witrPrayer"} |-> k = "quran"])}

\* The store st with `item` under `key`, or without the key when the item
\* is null.
WithItem(st, key, item) ==
  IF item.kind = "null" THEN [k \in DOMAIN st \ {key} |-> st[k]]
  ELSE (key :> item) @@ st

\* The dates looked up: the two days after the session's first day.
LookupDates == {clock + 1, clock + 2}

\* getHabitsForDate (lines 262-281) called twice for one date with no
\* write in between, on a store holding chosen items under the date's local
\* and legacy keys.
ApplyLookupTwice ==
  /\ phase = "unmounted" /\ call = NoCall
  /\ \E date \in LookupDates, localItem \in StoredChoices,
        legacyItem \in StoredChoices :
       \E before \in {WithItem(WithItem(storage, getLegacyDateKey(date),
                                         legacyItem),
                                getLocalDateKey(date), localItem)} :
         \E first \in {getHabitsForDate(before, date)} :
           \E second \in {getHabitsForDate(first.storage, date)} :
             call' = [fn |-> "lookups", date |-> date, before |-> before,
                      first |-> first.record, between |-> first.storage,
                      second |-> second.record, after |-> second.storage]
  /\ UNCHANGED <<calendar, lastDate, defect, clock, elapsed, now, selectedYear,
                 selectedMonth, hijriYearData, monthlyHijriData, storage,
                 utcShift, requiredHabits, optionalHabits, phase, timers,
                 last, TrackerState>>

NextFn ==
  \/ ApplyYearStart \/ ApplyProgress \/ ApplyMonthGrid \/ ApplyDayTags
  \/ ApplyOnObjects \/ ApplyTwoGrids

NextAnchors == ApplyYearStartTwice

NextLookups == ApplyLookupTwice

\* The dates getHijriParts is applied to on its own: the first days of the
\* table, a day late in BaseYear, the first day of month 5 of BaseYear and
\* the days around it.
PartsDates ==
  LET monthFive == calendar[12 + 5].first
  IN (1..3) \cup {monthFive - 1, monthFive, monthFive + 1,
                  YearFirst(BaseYear + 1) - 1}

\* getHijriParts(date), with the parts the formatter gave it.
ApplyHijriParts ==
  /\ phase = "unmounted" /\ call = NoCall
  /\ \E date \in PartsDates :
       call' = [fn |-> "getHijriParts",
                date |-> date,
                parts |-> formatToParts(date),
                result |-> getHijriParts(date)]
  /\ UNCHANGED <<calendar, lastDate, defect, clock, elapsed, now, selectedYear,
                 selectedMonth, hijriYearData, monthlyHijriData, storage,
                 utcShift, requiredHabits, optionalHabits, phase, timers,
                 last, TrackerState>>

NextParts == ApplyHijriParts

(* ---------------------------- initial states -------------------------- *)
NoDefect == [kind |-> "none", at |-> NoDate]

\* The ways the formatter of calendar c deviates from its table: not at
\* all, a part left out on one day of BaseYear, or stuck from a day on.
Defects(c) ==
  LET monthFive == FirstDayOf(c, BaseYear) + SumMonths(c, BaseYear, 4)
  IN {NoDefect,
      [kind |-> "noMonth", at |-> monthFive],
      [kind |-> "noYear", at |-> monthFive + 10],
      [kind |-> "stuck", at |-> 1],
      [kind |-> "stuck", at |-> FirstDayOf(c, BaseYear + 1) + 100]}

Oracle(c, d) ==
  /\ calendar = CalendarTable(c)
  /\ lastDate = SumYears(c, BaseYear - 1, NumYears + 2)
  /\ defect = d

\* The days a session starts on: the first and the last day of BaseYear
\* and a day inside it.
AnchorDays(c) ==
  {FirstDayOf(c, BaseYear), FirstDayOf(c, BaseYear) + 100,
   FirstDayOf(c, BaseYear + 1) - 1}

\* The items stored before a session started on day `anchor`: a record, an
\* item that is no JSON, and an empty record.
StoredItems(anchor) ==
  (anchor :> Stringify([k \in {"fajr"} |-> TRUE]))
  @@ (anchor + 1 :> [kind |-> "garbage"])
  @@ (anchor + 3 :> Stringify([k \in {} |-> TRUE]))

\* The props and the stored items of a session started on day `anchor`.
HabitScenarios(anchor) ==
  {[required |-> <<"fajr", "quran", "other">>,
    optional |-> <<"witrPrayer", "fajr">>,
    storage |-> StoredItems(anchor), utcShift |-> 0],
   [required |-> <<"fajr">>,
    optional |-> <<>>,
    storage |-> StoredItems(anchor), utcShift |-> 0 - 1]}

Session(anchor, scenario) ==
  /\ clock = anchor
  /\ utcShift = scenario.utcShift
  /\ storage = scenario.storage
  /\ requiredHabits = scenario.required
  /\ optionalHabits = scenario.optional

\* Before the calendar view is opened: the environment is chosen, the
\* component's state is not yet there.
Unmounted ==
  /\ phase = "unmounted"
  /\ elapsed = 0
  /\ now = NoDate
  /\ selectedYear = 0
  /\ selectedMonth = 0
  /\ hijriYearData = [yearStart |-> NoDate,
                      monthStarts |-> [i \in MonthIndexes |-> NoDate],
                      monthLabels |-> [i \in MonthIndexes |-> ""]]
  /\ monthlyHijriData = [startWeekday |-> 0, days |-> <<>>]
  /\ last = [op |-> "none", year |-> 0, floor |-> 0]
  /\ call = NoCall
  /\ view = "closed"
  /\ habits = defaultHabits
  /\ locale = NoLocale
  /\ i18nReady = FALSE
  /\ localeLoads = <<>>
  /\ localeEffectDue = FALSE
  /\ timers = {}
  /\ completedOn = [day \in DOMAIN storage
                             \cup (clock..(clock + MaxClockDays)) |->
                      CompletedInItem(getItem(storage, day))]

\* The calendars sessions are opened under: the one with years of 354 or
\* 355 days in a fixed pattern and the one with years of 348 and 360 days.
SessionCalendars == {1, 3}

Init ==
  \E c \in SessionCalendars :
    /\ Oracle(c, NoDefect)
    /\ \E anchor \in AnchorDays(c) :
         \E scenario \in HabitScenarios(anchor) : Session(anchor, scenario)
    /\ Unmounted

\* The functions applied under a formatter that follows its table.
InitFn ==
  \E c \in Calendars :
    /\ Oracle(c, NoDefect)
    /\ \E scenario \in HabitScenarios(FirstDayOf(c, BaseYear)) :
         Session(FirstDayOf(c, BaseYear), scenario)
    /\ Unmounted

\* Values of a part that are no numeral of a positive number: the empty
\* string, a string without a digit, and digits followed by a letter.
MalformedValues == {<<>>, <<"x">>, <<"1", "x">>}

\* The ways the formatter of calendar c garbles a date: a part left out, or
\* a part written with a malformed value, on the first day of month 5 of
\* BaseYear.
PartDefects(c) ==
  LET monthFive == FirstDayOf(c, BaseYear) + SumMonths(c, BaseYear, 4)
  IN {NoDefect}
     \cup {[kind |-> k, at |-> monthFive] : k \in {"noDay", "noMonth", "noYear"}}
     \cup {[kind |-> "malformed", at |-> monthFive, part |-> t, value |-> v] :
             t \in {"day", "month", "year"}, v \in MalformedValues}

\* getHijriParts applied under a formatter that garbles one date.
InitParts ==
  \E c \in Calendars :
    /\ \E d \in PartDefects(c) : Oracle(c, d)
    /\ \E scenario \in HabitScenarios(FirstDayOf(c, BaseYear)) :
         Session(FirstDayOf(c, BaseYear), scenario)
    /\ Unmounted

\* The tracker in a session where the local and the UTC date agree.
InitTracker ==
  \E c \in Calendars :
    /\ Oracle(c, NoDefect)
    /\ \E scenario \in {h \in HabitScenarios(FirstDayOf(c, BaseYear)) :
                          h.utcShift = 0} :
         Session(FirstDayOf(c, BaseYear), scenario)
    /\ Unmounted

\* The functions applied under any formatter.
InitFnAnyOracle ==
  \E c \in Calendars :
    /\ \E d \in Defects(c) : Oracle(c, d)
    /\ \E scenario \in HabitScenarios(FirstDayOf(c, BaseYear)) :
         Session(FirstDayOf(c, BaseYear), scenario)
    /\ Unmounted

Spec == Init /\ [][Next]_vars
SpecFn == InitFn /\ [][NextFn]_vars
SpecFnAnyOracle == InitFnAnyOracle /\ [][NextFn]_vars
SpecParts == InitParts /\ [][NextParts]_vars
SpecTracker == InitTracker /\ [][NextTracker]_vars
SpecAnchors == InitFnAnyOracle /\ [][NextAnchors]_vars
SpecLookups == InitFn /\ [][NextLookups]_vars

(* ------------------------------ the claims ---------------------------- *)
\* C1: for every target Hijri year and every anchor date,
\* getHijriYearStart returns a date that the oracle converts to day 1 of
\* month 1 of the target year, and the oracle converts the day before it
\* to the year before the target year.
YearStartIsFirstDayOfYear ==
  call.fn = "getHijriYearStart" =>
    /\ ValidDate(call.result) /\ ValidDate(call.result - 1)
    /\ getHijriParts(call.result) =
         [day |-> 1, month |-> 1, year |-> call.targetYear]
    /\ getHijriParts(call.result - 1).year = call.targetYear - 1

\* The 354-day guess fell outside the target year, the first loop stepped
\* into it, and the second loop stepped back to its start.
YearStartFoundAfterMissedGuess ==
  /\ call.fn = "getHijriYearStart"
  /\ call.targetYear # getHijriParts(call.anchor).year
  /\ call.dateInYear #
       call.anchor
         + (call.targetYear - getHijriParts(call.anchor).year) * ApproxYearDays
  /\ ValidDate(call.result)
  /\ call.result < call.dateInYear

\* C2: in every year navigated to, the month starts the year scan built
\* are strictly increasing in the month index, and the oracle converts
\* every present slot i to day 1 of month i+1 of the selected year.
MonthStartsPartitionYear ==
  phase = "mounted" =>
    LET monthStarts == hijriYearData.monthStarts
        present == {i \in MonthIndexes : monthStarts[i] # NoDate}
    IN /\ \A i, j \in present : i < j => monthStarts[i] < monthStarts[j]
       /\ \A i \in present :
            getHijriParts(monthStarts[i]) =
              [day |-> 1, month |-> i + 1, year |-> selectedYear]

\* The next-year button led to a year whose scan filled all twelve slots.
NavigatedYearScanned ==
  /\ phase = "mounted"
  /\ last.op = "nextYear"
  /\ selectedYear = last.year + 1
  /\ \A i \in MonthIndexes : hijriYearData.monthStarts[i] # NoDate

\* C3: for every year and every month index 0..11, the grid holds exactly
\* one entry per day from monthStarts[i] to the day before monthStarts[i+1]
\* (for the last month, the day before the first day of the next year), in
\* increasing order with no day repeated or skipped.
GridEnumeratesMonthDays ==
  call.fn = "monthlyHijriData" =>
    LET first == call.monthStarts[call.month]
        next == IF call.month < 11 THEN call.monthStarts[call.month + 1]
                ELSE YearFirst(call.year + 1)
    IN /\ ~call.thrown
       /\ first # NoDate /\ next # NoDate
       /\ Len(call.days) = next - first
       /\ \A k \in 1..Len(call.days) : call.days[k].date = first + k - 1

\* The grid of a twelfth month, which ends where the next year starts.
LastMonthGridBuilt ==
  /\ call.fn = "monthlyHijriData"
  /\ call.month = 11
  /\ Len(call.days) >= 29
  /\ call.days[Len(call.days)].date = YearFirst(call.year + 1) - 1

\* C4: in every reachable state selectedYear is at least the Hijri year of
\* the reference today; a refresh that raises the floor above selectedYear
\* raises selectedYear to the floor.
SelectedYearAtLeastFloor ==
  phase = "mounted" => selectedYear >= minYear

\* C5: prevYear run while selectedYear equals the floor year leaves
\* selectedYear unchanged.
PrevYearAtFloorKeepsYear ==
  last.op = "prevYear" /\ last.year = last.floor =>
    selectedYear = last.year

\* The previous-year updater has run with selectedYear at the floor year
\* BaseYear.
PrevYearRanAtFloor ==
  /\ phase = "mounted"
  /\ last.op = "prevYear"
  /\ last.year = last.floor
  /\ last.floor = BaseYear

\* The listed names whose flag is true in the record, counted by position.
CompletedIn(habitList, record) ==
  Cardinality({i \in 1..Len(habitList) :
                 habitList[i] \in DOMAIN record /\ record[habitList[i]]})

\* p is 100 * completed / length rounded to the nearest integer, a half
\* rounded up.
IsRoundedPercent(p, completed, length) ==
  2 * length * p <= 200 * completed + length
    /\ 200 * completed + length < 2 * length * (p + 1)

\* C6: for a day that has a habit record and a non-empty habit-name list,
\* required or optional, the progress computed is round(100 * names of
\* the list whose flag is true in the record / length of the list), a name
\* the record lacks counting as not completed, and it lies in 0..100.
ProgressIsRoundedShare ==
  call.fn = "progress" /\ call.habitsForDay.found /\ Len(call.habitList) > 0 =>
    \A value \in {call.requiredProgress, call.optionalProgress} :
      /\ value.tag = "number"
      /\ value.value \in 0..100
      /\ IsRoundedPercent(value.value,
                          CompletedIn(call.habitList, call.habitsForDay.habits),
                          Len(call.habitList))

\* Two of three listed names are completed, one of them absent from the
\* record: 66.67 is rounded to 67.
TwoOfThreeCompleted ==
  /\ call.fn = "progress"
  /\ call.habitsForDay.found
  /\ Len(call.habitList) = 3
  /\ "other" \in {call.habitList[i] : i \in 1..3}
  /\ CompletedIn(call.habitList, call.habitsForDay.habits) = 2
  /\ call.requiredProgress = Number(67)
  /\ call.optionalProgress = Number(67)

\* C7: with an empty habit-name list, the progress computed for a day
\* that has a record is 0, for the required list and the optional list
\* alike.
EmptyListProgressIsZero ==
  call.fn = "progress" /\ call.habitsForDay.found /\ call.habitList = <<>> =>
    /\ call.requiredProgress = Number(0)
    /\ call.optionalProgress = Number(0)

\* C8: for every day of the month grid, requiredProgress is absent exactly
\* when the lookup returned no record for the date, and so is
\* optionalProgress; a day with a record and no completed habit carries 0.
ProgressAbsentIffNoRecord ==
  phase = "mounted" =>
    \A k \in 1..Len(monthlyHijriData.days) :
      LET day == monthlyHijriData.days[k]
          habitsForDay == getHabitsForDate(storage, day.date).record
      IN /\ (day.requiredProgress = Null) <=> ~habitsForDay.found
         /\ (day.optionalProgress = Null) <=> ~habitsForDay.found
         /\ habitsForDay.found
              /\ CompletedIn(requiredHabits, habitsForDay.habits) = 0
              => day.requiredProgress = Number(0)
         /\ habitsForDay.found
              /\ CompletedIn(optionalHabits, habitsForDay.habits) = 0
              => day.optionalProgress = Number(0)

\* C9: every day of a built grid has hijriMonth equal to the selected
\* month index plus one, and the hijriDay values run 1, 2, ..., n: the
\* grid covers one Hijri month, for every month index, also when a
\* month-start slot is absent.
GridCoversOneHijriMonth ==
  call.fn = "monthlyHijriData" /\ ~call.thrown =>
    \A k \in 1..Len(call.days) :
      /\ call.days[k].hijriMonth = call.month + 1
      /\ call.days[k].hijriDay = k

\* The day steps a search may take: no Hijri year has more than 355 days.
StepCap == 2 * (ApproxYearDays + 1)

\* The day steps of the two loops of getHijriYearStart: every iteration
\* moves the date by one day, and a loop left by the RangeError has
\* stepped to the end of the Date range.
YearStartSteps ==
  LET guess == call.anchor
                 + (call.targetYear - getHijriParts(call.anchor).year)
                     * ApproxYearDays
      forward == IF call.dateInYear # RangeError THEN call.dateInYear - guess
                 ELSE lastDate + 1 - guess
      backward == IF call.dateInYear # RangeError THEN guess - call.dateInYear
                  ELSE guess
      toYear == IF ~ValidDate(guess) THEN 0
                ELSE IF getHijriParts(guess).year < call.targetYear
                     THEN forward ELSE backward
      toStart == IF call.dateInYear = RangeError THEN 0
                 ELSE IF call.result = RangeError THEN call.dateInYear
                 ELSE call.dateInYear - (call.result - 1)
  IN toYear + toStart

\* C10: for any oracle, also one that never reports the target year, the
\* year-start search and the month-start scan stop after a bounded number
\* of day steps, with an explicit failure, and do not step on.
SearchesStopWithinCap ==
  /\ call.fn = "getHijriYearStart" => YearStartSteps <= StepCap
  /\ call.fn = "monthlyHijriData"
       /\ call.yearThrown /\ call.yearStart # RangeError
       => lastDate + 1 - call.yearStart <= StepCap

\* C11: a day carries the white-day tag exactly when its Hijri day is 13,
\* 14 or 15 and its Hijri month is not 9; the calendar grid and the daily
\* fasting prompt apply the same rule.
WhiteDayOutsideMonthNine ==
  call.fn = "dayTags" =>
    /\ call.cell.isWhiteDay
         <=> (call.hijriDay \in 13..15 /\ call.hijriMonth # 9)
    /\ call.isWhiteDayToday <=> call.cell.isWhiteDay

\* Day 14 of month 9: no tag.
MidRamadanUntagged ==
  /\ call.fn = "dayTags"
  /\ call.hijriMonth = 9 /\ call.hijriDay = 14
  /\ ~call.cell.isWhiteDay /\ ~call.isWhiteDayToday

\* C12: specialDayLabel returns the sacrifice-festival label for (12, 10),
\* the pilgrimage-day label for (12, 9), a label for (10, 1) and for
\* (1, 10), and nothing for every other pair of 1..12 x 1..30.
SpecialDaysLabelled ==
  call.fn = "dayTags" =>
    LET pair == <<call.hijriMonth, call.hijriDay>>
        label == call.cell.specialLabel
    IN /\ pair = <<12, 10>> => label = "Eid al-Adha"
       /\ pair = <<12, 9>> => label = "Day of Arafah"
       /\ pair \in {<<10, 1>>, <<1, 10>>} => label # NoLabel
       /\ pair \notin {<<12, 10>>, <<12, 9>>, <<10, 1>>, <<1, 10>>}
            => label = NoLabel

\* Day 11 of month 12: no label.
EleventhOfLastMonthUnlabelled ==
  /\ call.fn = "dayTags"
  /\ call.hijriMonth = 12 /\ call.hijriDay = 11
  /\ call.cell.specialLabel = NoLabel

\* C13: the last-ten tag marks exactly the last 10 days of month 9: in a
\* month 9 of L days it is on days L-9..L and on no other day of any month.
LastTenTagOnLastTenDays ==
  call.fn = "monthlyHijriData" /\ ~call.thrown =>
    \A k \in 1..Len(call.days) :
      call.cells[k].isRamadanLastTen
        <=> (call.month = 8 /\ k >= Len(call.days) - 9)

\* C14: whenever the formatter gives no parsable day, month or year part
\* for a date - the part is missing or its value is malformed - the field
\* getHijriParts returns for it is the default 1, so that every field of
\* every result is a positive integer.
PartsDefaultWhenUnparsable ==
  call.fn = "getHijriParts" =>
    \A t \in {"day", "month", "year"} :
      /\ call.result[t] # NotANumber /\ call.result[t] >= 1
      /\ (t \notin DOMAIN call.parts
          \/ call.parts[t] \in MalformedValues) => call.result[t] = 1

\* The longest year of months of 29 or 30 days.
LongestYearDays == 12 * 30

\* The formatter reports no day of the year scanned from yearStart as day 1
\* of the month of index i.
NeverObserved(yearStart, i) ==
  \A d \in yearStart..(yearStart + LongestYearDays - 1) :
    ValidDate(d) =>
      LET parts == getHijriParts(d)
      IN ~(parts.day = 1 /\ parts.month - 1 = i)

\* C15: when the year scan ends and day 1 of the selected month was never
\* observed in it, the month's slot in monthStarts is absent; and whenever
\* that slot is absent, the month's label is the empty string and the
\* grid is built, without an error, from the year start on.
AbsentMonthFallsBackToYearStart ==
  call.fn = "monthlyHijriData" /\ ~call.yearThrown =>
    /\ NeverObserved(call.yearStart, call.month) =>
         call.monthStarts[call.month] = NoDate
    /\ call.monthStarts[call.month] = NoDate =>
         /\ call.monthLabels[call.month] = ""
         /\ ~call.thrown
         /\ Len(call.days) >= 1
         /\ call.days[1].date = call.yearStart

\* C15 witness: a grid was built for a month whose first day the
\* formatter never reported, and its slot is absent.
UnobservedMonthSelected ==
  /\ call.fn = "monthlyHijriData" /\ ~call.yearThrown
  /\ NeverObserved(call.yearStart, call.month)
  /\ call.monthStarts[call.month] = NoDate
  /\ call.days # <<>>

\* The days from the start of month 1 to the start of month 12 in the
\* year map of the call.
DaysToLastMonth == call.monthStarts[11] - call.monthStarts[0]

\* C16 (as stated): in the year map of a resolved year the start of month
\* 12 lies between 330 and 360 days after the start of month 1.
LastMonthStartsWithin330To360 ==
  call.fn = "monthlyHijriData" /\ ~call.yearThrown =>
    /\ call.monthStarts[0] # NoDate /\ call.monthStarts[11] # NoDate
    /\ 330 <= DaysToLastMonth /\ DaysToLastMonth <= 360

\* C16 (amended): in the year map of a resolved year the start of month 1
\* is the year start, and the start of month 12 lies eleven months of 29
\* or 30 days after it: between 319 and 330 days.
LastMonthStartsElevenMonthsOn ==
  call.fn = "monthlyHijriData" /\ ~call.yearThrown =>
    /\ call.monthStarts[0] = call.yearStart
    /\ getHijriParts(call.yearStart) = [day |-> 1, month |-> 1,
                                        year |-> call.year]
    /\ call.monthStarts[11] # NoDate
    /\ 11 * 29 <= DaysToLastMonth /\ DaysToLastMonth <= 11 * 30

\* C16 witness: the year map of BaseYear was built, and its month 12
\* starts less than 330 days after its month 1.
LastMonthStartsBefore330 ==
  /\ call.fn = "monthlyHijriData" /\ ~call.yearThrown
  /\ call.year = BaseYear
  /\ call.monthStarts[11] # NoDate
  /\ DaysToLastMonth < 330

\* C17: after a month grid was built - the day lookup called for every
\* day of the month - the store holds the keys and values it held before.
GridBuildLeavesStoreAlone ==
  call.fn = "monthlyHijriData" => storage = StoredItems(clock)

\* The Date objects of a year map: its yearStart and its filled slots.
DatesOf(yearData) ==
  {yearData.yearStart}
  \cup {yearData.monthStarts[i] : i \in {j \in MonthIndexes :
                                          yearData.monthStarts[j] # NoRef}}

\* C18: resolving the year start, scanning the month starts and building
\* a month grid leave `today` on its day; the dates of a year map - which
\* are the first days of the year's months - keep their days while the
\* grid is built and while the map of another year is built, and the
\* other year's map is made of other objects.
InputsKeepTheirValues ==
  call.fn = "objects" =>
    /\ call.afterYear[call.today] = call.before[call.today]
    /\ call.afterGrid[call.today] = call.before[call.today]
    /\ call.afterOther[call.today] = call.before[call.today]
    /\ \A i \in MonthIndexes :
         /\ call.yearData.monthStarts[i] # NoRef
         /\ HijriDate(call.afterYear[call.yearData.monthStarts[i]])
              = [day |-> 1, month |-> i + 1, year |-> call.year]
    /\ \A d \in DatesOf(call.yearData) :
         /\ call.afterGrid[d] = call.afterYear[d]
         /\ call.afterOther[d] = call.afterYear[d]
    /\ DatesOf(call.yearData) \cap DatesOf(call.otherData) = {}
    /\ call.today \notin DatesOf(call.yearData) \cup DatesOf(call.otherData)
    /\ \A k \in 1..Len(call.days) :
         call.days[k] \notin DatesOf(call.yearData) \cup {call.today}

\* C18 witness: the grid of the last month was built from a year map
\* resolved from a `today` that is not the year start, and the map of
\* another year was built after it.
GridAndOtherYearBuiltOnObjects ==
  /\ call.fn = "objects" /\ call.month = 11
  /\ call.afterYear[call.yearData.yearStart] # call.before[call.today]
  /\ Len(call.days) >= 29
  /\ Len(call.afterOther) > Len(call.afterGrid)

\* C19: the next-year button raises selectedYear by exactly 1; the
\* previous-year button lowers it by exactly 1 whenever it is above the
\* floor; both leave selectedMonth as it is; the button of month index i
\* sets selectedMonth to i and leaves selectedYear as it is.
ButtonsMoveCursorByOne ==
  [][/\ last'.op = "nextYear" =>
          selectedYear' = selectedYear + 1 /\ selectedMonth' = selectedMonth
     /\ last'.op = "prevYear" /\ selectedYear > minYear =>
          selectedYear' = selectedYear - 1 /\ selectedMonth' = selectedMonth
     /\ last'.op = "selectMonth" =>
          /\ last'.index \in MonthIndexes
          /\ selectedMonth' = last'.index
          /\ selectedYear' = selectedYear]_vars

\* C19 witness: the previous-year button was pressed above the floor and
\* the year went down by one.
PrevYearRanAboveFloor ==
  /\ last.op = "prevYear" /\ last.year > last.floor
  /\ selectedYear = last.year - 1

\* C20: once the view is open, selectedYear and selectedMonth change only
\* in a step of the previous-year, next-year or a month button; a day
\* check, with or without a refresh of `now`, and the rebuild of the
\* memos it causes leave both as they are, and so does a midnight.
CursorMovesOnlyByButtons ==
  [][/\ (selectedYear' # selectedYear \/ selectedMonth' # selectedMonth) =>
          last'.op \in {"mount", "prevYear", "nextYear", "selectMonth"}
     /\ last'.op = "dayCheck" =>
          selectedYear' = selectedYear /\ selectedMonth' = selectedMonth]_vars

\* C20 witness: a day check refreshed `now` into the next Hijri year, the
\* memos were rebuilt, and the cursor is where it was.
DayCheckRefreshedIntoNextYear ==
  /\ phase = "mounted" /\ last.op = "dayCheck"
  /\ now = clock /\ elapsed > 0
  /\ minYear > last.floor
  /\ selectedYear = last.year

\* C21: a day check that finds the day `now` holds leaves `now` as it is
\* and makes no memo run again - the memos and the store stay as they
\* are; and once the view is open `now` is replaced only by a day check
\* that finds another day, which it then holds.
SameDayCheckChangesNothing ==
  [][/\ last'.op = "dayCheck" /\ clock = now =>
          /\ now' = now
          /\ last'.memos = {}
          /\ UNCHANGED <<hijriYearData, monthlyHijriData, storage, phase>>
     /\ now' # now /\ last'.op # "mount" =>
          last'.op = "dayCheck" /\ clock # now /\ now' = clock]_vars

\* C21 witness: a day check ran on the day `now` holds, after an earlier
\* check had replaced `now`.
SameDayCheckRan ==
  /\ last.op = "dayCheck" /\ last.memos = {}
  /\ now = clock /\ elapsed > 0

\* The days the year scan of the call visited: from the year start up to
\* the day the cursor was left on.
ScannedDays == call.yearStart..(call.cursor - 1)

\* C22: the year scan starts at the year start and steps one day at a
\* time; every day it visits is of year Y and the day it stops on is the
\* first that is not; every slot holds the first visited day the
\* formatter reports as day 1 of its month; and the day steps taken are
\* as many as year Y has days, which is at most 360.
ScanIsOnePassOverYear ==
  call.fn = "monthlyHijriData" =>
    /\ ~call.yearThrown
    /\ \A d \in ScannedDays : getHijriParts(d).year = call.year
    /\ getHijriParts(call.cursor).year # call.year
    /\ \A i \in MonthIndexes :
         LET seen == {d \in ScannedDays :
                        /\ getHijriParts(d).day = 1
                        /\ getHijriParts(d).month = i + 1}
         IN /\ seen # {}
            /\ call.monthStarts[i] \in seen
            /\ \A d \in seen : call.monthStarts[i] <= d
    /\ call.cursor - call.yearStart
         = YearFirst(call.year + 1) - YearFirst(call.year)
    /\ call.cursor - call.yearStart <= 12 * 30

\* C22 witness: a year of twelve months of 30 days was scanned, in 360
\* day steps.
LongestYearScanned ==
  /\ call.fn = "monthlyHijriData" /\ ~call.yearThrown
  /\ call.cursor - call.yearStart = 12 * 30
  /\ \A i \in MonthIndexes : call.monthStarts[i] # NoDate

\* C23: the bar widths of the cell of a day whose record has 0% of the
\* habits completed are not those of the cell of a day with no record.
ZeroPercentShownApartFromNoRecord ==
  call.fn = "progress" /\ call.habitsForDay.found
    /\ call.requiredProgress = Number(0) =>
      call.widths # call.widthsNoRecord

\* The year the formatter reports never goes down from one day to the
\* next.  The reported year can change only where a month of the table
\* ends and on the days around defect.at, so these days are looked at.
YearNeverDecreases ==
  \A d \in ({calendar[i].first - 1 : i \in DOMAIN calendar}
            \cup {defect.at - 1, defect.at}) :
    ValidDate(d) /\ ValidDate(d + 1) =>
      getHijriParts(d).year <= getHijriParts(d + 1).year

\* C24: under a formatter whose year never goes down as the date
\* advances, getHijriYearStart gives the same day for the same target
\* year from any two anchors.
YearStartSameFromAnyAnchor ==
  call.fn = "twoAnchors" /\ YearNeverDecreases =>
    call.result = call.otherResult

\* C24 witness: under such a formatter that does not follow its table,
\* two anchors in different Hijri years gave the same year start.
YearStartFoundFromTwoAnchors ==
  /\ call.fn = "twoAnchors" /\ YearNeverDecreases
  /\ defect.kind = "stuck"
  /\ getHijriParts(call.anchor).year # getHijriParts(call.other).year
  /\ ValidDate(call.result) /\ call.result = call.otherResult

\* C25: the grid of a month and the grid of the month after it - grid
\* (Y+1, 0) after grid (Y, 11) - are runs of consecutive days, and the
\* second starts on the day after the last day of the first: no day
\* lies in both and none between them.
ConsecutiveGridsTile ==
  call.fn = "twoGrids" =>
    /\ ~call.thrown
    /\ call.days # <<>> /\ call.nextDays # <<>>
    /\ \A k \in 1..Len(call.days) : call.days[k] = call.days[1] + k - 1
    /\ \A k \in 1..Len(call.nextDays) :
         call.nextDays[k] = call.nextDays[1] + k - 1
    /\ call.nextDays[1] = call.days[Len(call.days)] + 1

\* C25 witness: the grid of a twelfth month and the grid of the first
\* month of the next year were built.
GridsBuiltAcrossYearEnd ==
  /\ call.fn = "twoGrids" /\ ~call.thrown
  /\ call.month = 11 /\ call.nextMonth = 0
  /\ call.nextYear = call.year + 1
  /\ call.nextDays # <<>>

\* C26: the previous-year button never raises selectedYear: after it was
\* pressed the year is at most what it was before, also when a refresh
\* of `now` has raised the floor.
PrevYearNeverRaisesYear ==
  last.op = "prevYear" => selectedYear <= last.year

\* C27: while the tracker stays open, through any toggles and midnights,
\* the record stored under a day's key marks a habit true only if the
\* habit was set true on that day - by a toggle of that day or by the
\* record the day already had.
SavedRecordHoldsOwnDayOnly ==
  view = "open" =>
    \A day \in DOMAIN storage :
      CompletedInItem(storage[day]) \subseteq completedOn[day]

CurrentLoad == localeLoads[Len(localeLoads)]

\* C29: while the tracker is open, i18nReady holds only when the load
\* started for the current locale has settled, it holds once that load has
\* settled, resolved or rejected, and the settling of a load whose effect
\* run has been cleaned up leaves i18nReady as it was.
ReadyFollowsCurrentLocaleLoad ==
  /\ [](view = "open" /\ i18nReady =>
          CurrentLoad.locale = locale /\ CurrentLoad.promise # "pending")
  /\ [](view = "open" /\ CurrentLoad.locale = locale
          /\ CurrentLoad.promise # "pending" => i18nReady)
  /\ [][\A i \in DOMAIN localeLoads :
          (/\ ~localeLoads[i].active
           /\ localeLoads[i].promise = "pending"
           /\ localeLoads'[i].promise # "pending")
          => i18nReady' = i18nReady]_vars

\* C30: at any time at most one day-check timer is registered; while the
\* calendar is mounted it is the one whose callback closes over the
\* current `now`, so every check compares against the current reference;
\* and when the calendar is not mounted no timer is registered.
AtMostOneDayCheckTimer ==
  /\ Cardinality(timers) <= 1
  /\ timers \subseteq {now}
  /\ phase = "mounted" => timers = {now}
  /\ phase # "mounted" => timers = {}

\* C30 witness: the calendar was unmounted after a day check had replaced
\* `now`.
UnmountedAfterRefresh ==
  /\ phase = "removed" /\ last.op = "unmount"
  /\ elapsed > 0 /\ now = clock
====
